---- MODULE Spec2Model ----
(***************************************************************************)
(* Model of fs_mgr/fs_mgr_format.c: the three entry points                 *)
(* fs_mgr_is_partition_encrypted, fs_mgr_identify_fs and fs_mgr_do_format  *)
(* (with format_ext4 and format_f2fs), each executed statement by          *)
(* statement by a calling context.  System calls and the two external      *)
(* builders are the environment: every outcome they can produce is a       *)
(* nondeterministic choice.  Strings are sequences of characters, 32-bit   *)
(* words are four bytes, most significant first.                           *)
(***************************************************************************)
EXTENDS Integers, Sequences, FiniteSets, TLC

(* ------------------------------------------------------------------ *)
(* Bounds of the model                                                 *)
(* ------------------------------------------------------------------ *)

\* Sector counts tried around the smallest device that holds a footer.
MaxSectorSpread == 1

\* Exit codes 0..MaxExitCode (and 255) of the mkfs.f2fs child.
MaxExitCode == 2

(* ------------------------------------------------------------------ *)
(* Program constants                                                   *)
(* ------------------------------------------------------------------ *)

\* The distance of the crypto footer from the end of the device.  <cryptfs.h>
\* sets it (0x4000); the header is not part of this file.
CRYPT_FOOTER_OFFSET == 16384

\* sizeof(struct crypt_mnt_ftr).  <cryptfs.h> fixes it; the model takes a size
\* below CRYPT_FOOTER_OFFSET, and nothing but the length of the wipe depends on it.
SizeofCryptMntFtr == 2320

\* A sector of BLKGETSIZE.
SectorSize == 512

\* <errno.h>
EINVAL == 22

\* sizeof(footer_size) in format_f2fs.
FooterSizeBuf == 10

\* The strncmp length of the dispatch.
FsTypePrefixLen == 4

\* "footer"
CRYPT_KEY_IN_FOOTER == <<"f", "o", "o", "t", "e", "r">>

\* 0xD0B5B1C4
CRYPT_MAGIC == <<208, 181, 177, 196>>

\* 0xF2F52010
F2FS_SUPER_MAGIC == <<242, 245, 32, 16>>

\* 0xEF53
EXT4_SUPER_MAGIC == <<0, 0, 239, 83>>

TOTAL_SECTORS == 16

MkfsF2fsPath ==
    <<"/", "s", "b", "i", "n", "/", "m", "k", "f", "s", ".", "f", "2", "f", "s">>

DashR == <<"-", "r">>

Str_f2fs == <<"f", "2", "f", "s">>

Str_ext4 == <<"e", "x", "t", "4">>

(* ------------------------------------------------------------------ *)
(* libc helpers                                                        *)
(* ------------------------------------------------------------------ *)

\* The terminating NUL of a C string.
NUL == ""

CharAt(s, i) == IF i <= Len(s) THEN s[i] ELSE NUL

RECURSIVE StrncmpFrom(_, _, _, _)
StrncmpFrom(a, b, i, n) ==
    IF i > n THEN 0
    ELSE IF CharAt(a, i) # CharAt(b, i) THEN 1
    ELSE IF CharAt(a, i) = NUL THEN 0
    ELSE StrncmpFrom(a, b, i + 1, n)

\* 0 when equal, non-zero (its sign is never used) otherwise.
strncmp(a, b, n) == StrncmpFrom(a, b, 1, n)

strcmp(a, b) ==
    StrncmpFrom(a, b, 1, (IF Len(a) > Len(b) THEN Len(a) ELSE Len(b)) + 1)

DigitChar(d) == <<"0", "1", "2", "3", "4", "5", "6", "7", "8", "9">>[d + 1]

RECURSIVE Digits(_)
Digits(n) ==
    IF n < 10 THEN <<DigitChar(n)>>
    ELSE Digits(n \div 10) \o <<DigitChar(n % 10)>>

FormatD(n) == IF n < 0 THEN <<"-">> \o Digits(0 - n) ELSE Digits(n)

\* snprintf(buf, size, "%d", n): at most size - 1 characters are kept.
snprintf(size, n) ==
    LET s == FormatD(n)
    IN  IF Len(s) <= size - 1 THEN s ELSE SubSeq(s, 1, size - 1)

\* <sys/wait.h>
WIFEXITED(status) == (status % 128) = 0

WEXITSTATUS(status) == (status \div 256) % 256

\* The status word the kernel reports for exit(code) and for death by a signal.
ExitStatusWord(code) == (code % 256) * 256

SignalStatusWord(sig) == sig

(* ------------------------------------------------------------------ *)
(* Inputs                                                              *)
(* ------------------------------------------------------------------ *)

Ctx == {1, 2}

DevUserdata == <<"/", "d", "e", "v", "/", "u">>

DevCache == <<"/", "d", "e", "v", "/", "c">>

Devices == {DevUserdata, DevCache}

KeyFile == <<"/", "k", "e", "y">>

FsTypes ==
    { Str_ext4, Str_f2fs,
      <<"e", "x", "t", "4", "d", "e", "v">>, <<"f", "2", "f", "s", "2">>,
      <<"e", "x", "t", "3">>, <<"f", "2", "f">>, <<"x", "f", "s">>, <<>> }

\* key_loc: a NULL pointer or a string.
NullStr == [null |-> TRUE, s |-> <<>>]

StrPtr(s) == [null |-> FALSE, s |-> s]

KeyLocs ==
    { NullStr, StrPtr(CRYPT_KEY_IN_FOOTER), StrPtr(KeyFile),
      StrPtr(<<"f", "o", "o", "t", "e", "r", "s">>), StrPtr(<<>>) }

\* The fstab parser sets key_loc whenever it sets the encryptable flag.
Fstabs ==
    { f \in [blk_device : Devices, fs_type : FsTypes, mount_point : {<<"/", "d">>},
             key_loc : KeyLocs, encryptable : BOOLEAN] :
        f.encryptable => ~f.key_loc.null }

MinFooterSectors == CRYPT_FOOTER_OFFSET \div SectorSize

SectorCounts ==
    {0, 2048} \cup ((MinFooterSectors - 1) .. (MinFooterSectors + MaxSectorSpread))

ExitCodes == (0 .. MaxExitCode) \cup {255}

\* SIGKILL, SIGSEGV
Signals == {9, 11}

\* What make_ext4fs_internal can return: 0, -1 and EXIT_FAILURE.
BuilderResults == {-1, 0, 1}

Ops == {"do_format", "is_partition_encrypted", "identify_fs"}

(* ------------------------------------------------------------------ *)
(* State                                                               *)
(* ------------------------------------------------------------------ *)

VARIABLES
    l,      \* the locals and the position of each calling context
    fds,    \* the open descriptors of the process
    info    \* struct fs_info info, the global of ext4_utils

vars == <<l, fds, info>>

Ev(k, x, y, z) == [ev |-> k, x |-> x, y |-> y, z |-> z]

ChildPid(c) == 100 + c

\* The children of the process that format_f2fs did not fork.
OtherChildPids == {77}

Idle ==
    [pc |-> "idle", op |-> "none",
     fstab |-> [blk_device |-> DevUserdata, fs_type |-> <<>>, mount_point |-> <<>>,
                key_loc |-> NullStr, encryptable |-> FALSE],
     needs_footer |-> FALSE, fd |-> -1, pos |-> 0, nr_sec |-> 0, off |-> 0,
     rc |-> 0, pid |-> 0, args |-> <<>>, waits |-> 0,
     child |-> "none", cstatus |-> 0, execd |-> FALSE,
     block |-> FALSE, trace |-> <<>>, ret |-> 0]

Init ==
    /\ l = [c \in Ctx |-> Idle]
    /\ fds = {}
    /\ info = [len |-> 0]

\* open(2) returns the lowest descriptor that is not open.
LowestFree(open) == CHOOSE n \in 3 .. (3 + Cardinality(open)) :
    /\ n \notin open
    /\ \A m \in 3 .. (n - 1) : m \in open

\* close(2): 0, or -1 (EBADF) on a descriptor that is not open.
CloseResult(open, fd) == IF fd \in open THEN 0 ELSE -1

Set(c, r) == l' = [l EXCEPT ![c] = r]

Log(c, e) == Append(l[c].trace, e)

(* ------------------------------------------------------------------ *)
(* A caller invokes one of the entry points                            *)
(* ------------------------------------------------------------------ *)

Call(c) ==
    /\ l[c].pc = "idle"
    /\ \E op \in Ops, f \in Fstabs :
        Set(c, [Idle EXCEPT !.op = op, !.fstab = f,
                            !.pc = CASE op = "do_format" -> "fmt_entry"
                                     [] op = "is_partition_encrypted" -> "enc_entry"
                                     [] OTHER -> "id_calloc"])
    /\ UNCHANGED <<fds, info>>

\* The entry point has returned ret; the caller goes on.
Return(c) ==
    /\ l[c].pc = "done"
    /\ Set(c, Idle)
    /\ UNCHANGED <<fds, info>>

(* ------------------------------------------------------------------ *)
(* fs_mgr_do_format                                                    *)
(* ------------------------------------------------------------------ *)

NeedsFooter(f) == ~f.key_loc.null /\ strcmp(f.key_loc.s, CRYPT_KEY_IN_FOOTER) = 0

\* A dispatch that compares one character too few.
FsTypeIs_Prefix3(fs_type, name) == strncmp(fs_type, name, FsTypePrefixLen - 1) = 0

FsTypeIs(fs_type, name) == strncmp(fs_type, name, FsTypePrefixLen) = 0

DoFormat(c) ==
    /\ l[c].pc = "fmt_entry"
    /\ LET f == l[c].fstab
           r == [l[c] EXCEPT !.rc = 0 - EINVAL, !.needs_footer = NeedsFooter(f)]
       IN  IF FsTypeIs(f.fs_type, Str_f2fs)
           THEN Set(c, [r EXCEPT !.pc = "f2fs_start"])
           ELSE IF FsTypeIs(f.fs_type, Str_ext4)
           THEN Set(c, [r EXCEPT !.pc = "ext4_open"])
           ELSE Set(c, [r EXCEPT !.pc = "fmt_ret"])
    /\ UNCHANGED <<fds, info>>

DoFormatReturn(c) ==
    /\ l[c].pc = "fmt_ret"
    /\ Set(c, [l[c] EXCEPT !.ret = l[c].rc, !.pc = "done"])
    /\ UNCHANGED <<fds, info>>

(* ------------------------------------------------------------------ *)
(* format_ext4                                                         *)
(* The block-size check at its top only rewrites fs_blksize, which is  *)
(* never read again, and is left out.                                  *)
(* ------------------------------------------------------------------ *)

\* return rc from format_ext4 into fs_mgr_do_format's rc.
Ext4Return(r, rc, tr) == [r EXCEPT !.rc = rc, !.trace = tr, !.pc = "fmt_ret"]

Ext4Open(c) ==
    /\ l[c].pc = "ext4_open"
    /\ \/ /\ Set(c, Ext4Return(l[c], -1,
                     Log(c, Ev("open", -1, l[c].fstab.blk_device, "O_RDWR"))))
          /\ UNCHANGED fds
       \/ LET fd == LowestFree(fds)
          IN  /\ fds' = fds \cup {fd}
              /\ Set(c, [l[c] EXCEPT !.fd = fd, !.pos = 0, !.pc = "ext4_ioctl",
                     !.trace = Log(c, Ev("open", fd, l[c].fstab.blk_device, "O_RDWR"))])
    /\ UNCHANGED info

\* An ioctl failure path that returns without the close.
Ext4Ioctl_Leak(c) ==
    /\ l[c].pc = "ext4_ioctl"
    /\ \/ Set(c, Ext4Return(l[c], -1, Log(c, Ev("ioctl", l[c].fd, -1, 0))))
       \/ \E n \in SectorCounts :
            Set(c, [l[c] EXCEPT !.nr_sec = n, !.off = n * SectorSize,
                    !.trace = Log(c, Ev("ioctl", l[c].fd, 0, n)),
                    !.pc = IF l[c].needs_footer THEN "ext4_seek" ELSE "ext4_close"])
    /\ UNCHANGED <<fds, info>>

Ext4Ioctl(c) ==
    /\ l[c].pc = "ext4_ioctl"
    /\ \/ /\ fds' = fds \ {l[c].fd}
          /\ Set(c, Ext4Return(l[c], -1,
                     Log(c, Ev("ioctl", l[c].fd, -1, 0))
                        \o <<Ev("close", l[c].fd, CloseResult(fds, l[c].fd), 0)>>))
       \/ /\ \E n \in SectorCounts :
                Set(c, [l[c] EXCEPT !.nr_sec = n, !.off = n * SectorSize,
                        !.trace = Log(c, Ev("ioctl", l[c].fd, 0, n)),
                        !.pc = IF l[c].needs_footer THEN "ext4_seek" ELSE "ext4_close"])
          /\ UNCHANGED fds
    /\ UNCHANGED info

\* A wipe that steps back by the size of the record, not by the footer offset.
FooterWipeOffset_Size(off) == off - SizeofCryptMntFtr

\* off -= CRYPT_FOOTER_OFFSET
FooterWipeOffset(off) == off - CRYPT_FOOTER_OFFSET

\* lseek64 to a negative offset fails (EINVAL); otherwise it may fail or not.
SeekResults(off) == IF off < 0 THEN {-1} ELSE {-1, off}

Ext4Seek(c) ==
    /\ l[c].pc = "ext4_seek"
    /\ LET off == FooterWipeOffset(l[c].off)
       IN  \E res \in SeekResults(off) :
             IF res = -1
             THEN /\ fds' = fds \ {l[c].fd}
                  /\ Set(c, Ext4Return([l[c] EXCEPT !.off = off], -1,
                         Log(c, Ev("lseek", l[c].fd, off, -1))
                            \o <<Ev("close", l[c].fd, CloseResult(fds, l[c].fd), 0)>>))
             ELSE /\ UNCHANGED fds
                  /\ Set(c, [l[c] EXCEPT !.off = off, !.pos = off, !.pc = "ext4_write",
                             !.trace = Log(c, Ev("lseek", l[c].fd, off, res))])
    /\ UNCHANGED info

\* write(2) of n bytes: an error, a short count or all of them.
WriteResults(n) == {-1, n \div 2, n}

\* write(fd, &crypt_ftr, sizeof(struct crypt_mnt_ftr)) of the zeroed record;
\* its result is not looked at.
Ext4Write(c) ==
    /\ l[c].pc = "ext4_write"
    /\ \E res \in WriteResults(SizeofCryptMntFtr) :
         Set(c, [l[c] EXCEPT !.pc = "ext4_close",
                 !.pos = IF res > 0 THEN l[c].pos + res ELSE l[c].pos,
                 !.trace = Log(c, Ev("write", l[c].fd, l[c].pos,
                                     [len |-> SizeofCryptMntFtr, zero |-> TRUE,
                                      res |-> res]))])
    /\ UNCHANGED <<fds, info>>

Ext4Close(c) ==
    /\ l[c].pc = "ext4_close"
    /\ fds' = fds \ {l[c].fd}
    /\ Set(c, [l[c] EXCEPT !.pc = "ext4_setlen",
               !.trace = Log(c, Ev("close", l[c].fd, CloseResult(fds, l[c].fd), 0))])
    /\ UNCHANGED info

\* The length given to the builder: info.len = ((off64_t)nr_sec * 512).
Ext4InfoLen(r) == r.nr_sec * SectorSize

\* reset_ext4fs_info(); info.len = ...
Ext4SetLen(c) ==
    /\ l[c].pc = "ext4_setlen"
    /\ info' = [len |-> Ext4InfoLen(l[c])]
    /\ Set(c, [l[c] EXCEPT !.pc = "ext4_build"])
    /\ UNCHANGED fds

\* rc = make_ext4fs_internal(fd, ...): the builder reads the global info and is
\* handed the descriptor number kept in fd.
Ext4Build(c) ==
    /\ l[c].pc = "ext4_build"
    /\ \E res \in BuilderResults :
         Set(c, [l[c] EXCEPT !.rc = res, !.pc = "ext4_close2",
                 !.trace = Log(c, Ev("builder", l[c].fd, info.len,
                                     [open |-> l[c].fd \in fds, res |-> res,
                                      mnt |-> l[c].fstab.mount_point]))])
    /\ UNCHANGED <<fds, info>>

\* The status format_ext4 returns for the builder's result rc.
Ext4Status(rc) == rc

\* close(fd); return rc;
Ext4Close2(c) ==
    /\ l[c].pc = "ext4_close2"
    /\ fds' = fds \ {l[c].fd}
    /\ Set(c, Ext4Return(l[c], Ext4Status(l[c].rc),
                 Log(c, Ev("close", l[c].fd, CloseResult(fds, l[c].fd), 0))))
    /\ UNCHANGED info

FormatExt4(c) ==
    \/ Ext4Open(c) \/ Ext4Ioctl(c) \/ Ext4Seek(c) \/ Ext4Write(c) \/ Ext4Close(c)
    \/ Ext4SetLen(c) \/ Ext4Build(c) \/ Ext4Close2(c)

(* ------------------------------------------------------------------ *)
(* format_f2fs                                                         *)
(* ------------------------------------------------------------------ *)

\* The ternary with its arms exchanged.
F2fsFooter_Swapped(needs_footer) == IF needs_footer THEN 0 ELSE CRYPT_FOOTER_OFFSET

\* int footer = needs_footer ? CRYPT_FOOTER_OFFSET : 0;
F2fsFooter(needs_footer) == IF needs_footer THEN CRYPT_FOOTER_OFFSET ELSE 0

\* args[0..3] of the execv.
F2fsArgs(fs_blkdev, needs_footer) ==
    <<MkfsF2fsPath, DashR, snprintf(FooterSizeBuf, F2fsFooter(needs_footer)), fs_blkdev>>

F2fsStart(c) ==
    /\ l[c].pc = "f2fs_start"
    /\ Set(c, [l[c] EXCEPT !.rc = 0, !.pc = "f2fs_fork",
               !.args = F2fsArgs(l[c].fstab.blk_device, l[c].needs_footer)])
    /\ UNCHANGED <<fds, info>>

\* pid = fork(): a child, or -1 and no child.
F2fsFork(c) ==
    /\ l[c].pc = "f2fs_fork"
    /\ \/ Set(c, [l[c] EXCEPT !.pid = ChildPid(c), !.child = "forked",
                  !.pc = "f2fs_wait", !.trace = Log(c, Ev("fork", ChildPid(c), 0, 0))])
       \/ Set(c, [l[c] EXCEPT !.pid = -1, !.pc = "f2fs_wait",
                  !.trace = Log(c, Ev("fork", -1, 0, 0))])
    /\ UNCHANGED <<fds, info>>

\* The child: execv("/sbin/mkfs.f2fs", args), and exit(1) when the execv fails.
ChildExec(c) ==
    /\ l[c].child = "forked"
    /\ \/ Set(c, [l[c] EXCEPT !.child = "running", !.execd = TRUE,
                  !.trace = Log(c, Ev("exec", l[c].args[1], SubSeq(l[c].args, 2, 4), 0))])
       \/ Set(c, [l[c] EXCEPT !.child = "exited", !.cstatus = ExitStatusWord(1)])
    /\ UNCHANGED <<fds, info>>

\* mkfs.f2fs ends with an exit code.
ChildExit(c) ==
    /\ l[c].child = "running"
    /\ \E code \in ExitCodes :
         Set(c, [l[c] EXCEPT !.child = "exited", !.cstatus = ExitStatusWord(code)])
    /\ UNCHANGED <<fds, info>>

\* The child is killed by a signal, before or after the execv.
ChildKilled(c) ==
    /\ l[c].child \in {"forked", "running"}
    /\ \E sig \in Signals :
         Set(c, [l[c] EXCEPT !.child = "signaled", !.cstatus = SignalStatusWord(sig)])
    /\ UNCHANGED <<fds, info>>

\* What waitpid(pid, &rc, 0) can do, as [p, status, reaps]: status is what rc
\* holds afterwards (waitpid leaves it alone when it fails).
\*   pid > 0: it blocks while the child lives, unless a signal interrupts it
\*            (-1, EINTR); it returns pid once for a terminated child; after
\*            that there is no such child (-1, ECHILD).
\*   pid = -1 (the fork failed): it waits for any child of the process: -1
\*            (ECHILD) when there is none, else that child's pid and status.
WaitOutcomes(r) ==
    IF r.pid > 0
    THEN IF r.child \in {"exited", "signaled"}
         THEN {[p |-> r.pid, status |-> r.cstatus, reaps |-> TRUE]}
         ELSE {[p |-> -1, status |-> r.rc, reaps |-> FALSE]}
    ELSE {[p |-> -1, status |-> r.rc, reaps |-> FALSE]}
         \cup {[p |-> q, status |-> ExitStatusWord(code), reaps |-> FALSE] :
                  q \in OtherChildPids, code \in {0, 1}}

\* A loop body that takes every status of the child for an exit status.
WaitLoopBody_ExitOnly(p, pid, status) ==
    IF p # pid THEN [rc |-> -1, brk |-> TRUE]
    ELSE [rc |-> IF WEXITSTATUS(status) # 0 THEN -1 ELSE 0, brk |-> TRUE]

\* One pass of the for(;;) body after waitpid returned p and left status in rc:
\* the new rc and whether the loop is left.
WaitLoopBody(p, pid, status) ==
    IF p # pid THEN [rc |-> -1, brk |-> TRUE]
    ELSE IF WIFEXITED(status)
    THEN [rc |-> IF WEXITSTATUS(status) # 0 THEN -1 ELSE 0, brk |-> TRUE]
    ELSE [rc |-> status, brk |-> FALSE]

F2fsWait(c) ==
    /\ l[c].pc = "f2fs_wait"
    /\ \E w \in WaitOutcomes(l[c]) :
         LET b == WaitLoopBody(w.p, l[c].pid, w.status)
         IN  Set(c, [l[c] EXCEPT !.rc = b.rc, !.waits = l[c].waits + 1,
                     !.child = IF w.reaps THEN "reaped" ELSE l[c].child,
                     !.trace = Log(c, Ev("waitpid", l[c].pid, w.p,
                                         [status |-> w.status, child |-> l[c].child])),
                     !.pc = IF b.brk THEN "fmt_ret" ELSE "f2fs_wait"])
    /\ UNCHANGED <<fds, info>>

FormatF2fs(c) ==
    \/ F2fsStart(c) \/ F2fsFork(c) \/ ChildExec(c) \/ ChildExit(c) \/ ChildKilled(c)
    \/ F2fsWait(c)

(* ------------------------------------------------------------------ *)
(* fs_mgr_is_partition_encrypted                                       *)
(* ------------------------------------------------------------------ *)

\* fs_mgr_is_encryptable(fstab): the MF_CRYPT flag of the entry.
fs_mgr_is_encryptable(f) == f.encryptable

\* The out: label: close(fd) when fd >= 0, return ret.
ScanOut(r, open, ret, tr) ==
    [r EXCEPT !.ret = ret, !.pc = "done",
              !.trace = IF r.fd >= 0
                        THEN Append(tr, Ev("close", r.fd, CloseResult(open, r.fd), 0))
                        ELSE tr]

ScanOutFds(r, open) == IF r.fd >= 0 THEN open \ {r.fd} ELSE open

\* Which file holds the magic: "key" (key_loc is an absolute path), "footer"
\* (key_loc is "footer"), or "none".
KeyMode(f) ==
    IF CharAt(f.key_loc.s, 1) = "/" THEN "key"
    ELSE IF strcmp(f.key_loc.s, CRYPT_KEY_IN_FOOTER) = 0 THEN "footer"
    ELSE "none"

\* An entry that goes on to the key location of an entry that is not encryptable.
EncEntry_NoShortCircuit(c) ==
    /\ l[c].pc = "enc_entry"
    /\ IF KeyMode(l[c].fstab) = "none"
       THEN Set(c, ScanOut(l[c], fds, 0, l[c].trace))
       ELSE Set(c, [l[c] EXCEPT !.pc = "enc_open"])
    /\ UNCHANGED <<fds, info>>

EncEntry(c) ==
    /\ l[c].pc = "enc_entry"
    /\ IF ~fs_mgr_is_encryptable(l[c].fstab)
       THEN Set(c, [l[c] EXCEPT !.ret = 0, !.pc = "done"])
       ELSE IF KeyMode(l[c].fstab) = "none"
       THEN Set(c, ScanOut(l[c], fds, 0, l[c].trace))
       ELSE Set(c, [l[c] EXCEPT !.pc = "enc_open"])
    /\ UNCHANGED <<fds, info>>

EncPath(f) == IF KeyMode(f) = "key" THEN f.key_loc.s ELSE f.blk_device

EncOpen(c) ==
    /\ l[c].pc = "enc_open"
    /\ \/ /\ Set(c, ScanOut(l[c], fds, 0,
                     Log(c, Ev("open", -1, EncPath(l[c].fstab), "O_RDWR"))))
          /\ UNCHANGED fds
       \/ LET fd == LowestFree(fds)
          IN  /\ fds' = fds \cup {fd}
              /\ Set(c, [l[c] EXCEPT !.fd = fd, !.pos = 0,
                     !.pc = IF KeyMode(l[c].fstab) = "footer"
                            THEN "enc_ioctl" ELSE "enc_read",
                     !.trace = Log(c, Ev("open", fd, EncPath(l[c].fstab), "O_RDWR"))])
    /\ UNCHANGED info

\* An offset that steps back from the end by the size of the footer record.
EncFooterOffset_Size(sectors) == sectors * SectorSize - SizeofCryptMntFtr

\* offset = ((off64_t)sectors * 512) - CRYPT_FOOTER_OFFSET
EncFooterOffset(sectors) == sectors * SectorSize - CRYPT_FOOTER_OFFSET

EncIoctl(c) ==
    /\ l[c].pc = "enc_ioctl"
    /\ \/ /\ fds' = ScanOutFds(l[c], fds)
          /\ Set(c, ScanOut(l[c], fds, 0, Log(c, Ev("ioctl", l[c].fd, -1, 0))))
       \/ /\ \E n \in SectorCounts :
                Set(c, [l[c] EXCEPT !.nr_sec = n,
                        !.off = EncFooterOffset(n),
                        !.trace = Log(c, Ev("ioctl", l[c].fd, 0, n)),
                        !.pc = "enc_seek"])
          /\ UNCHANGED fds
    /\ UNCHANGED info

EncSeek(c) ==
    /\ l[c].pc = "enc_seek"
    /\ \E res \in SeekResults(l[c].off) :
         IF res = -1
         THEN /\ fds' = ScanOutFds(l[c], fds)
              /\ Set(c, ScanOut(l[c], fds, 0,
                         Log(c, Ev("lseek", l[c].fd, l[c].off, -1))))
         ELSE /\ UNCHANGED fds
              /\ Set(c, [l[c] EXCEPT !.pos = l[c].off, !.pc = "enc_read",
                         !.trace = Log(c, Ev("lseek", l[c].fd, l[c].off, res))])
    /\ UNCHANGED info

\* A 32-bit word with one bit of b-th byte flipped (bit 0).
FlipBit(w, b) == [w EXCEPT ![b] = IF w[b] % 2 = 0 THEN w[b] + 1 ELSE w[b] - 1]

\* The four bytes found at the position read, as the word they spell.
CryptWords == {CRYPT_MAGIC, <<0, 0, 0, 0>>} \cup {FlipBit(CRYPT_MAGIC, b) : b \in 1 .. 4}

\* The four bytes of a word as they lie in memory on the little-endian target.
ToLe(w) == <<w[4], w[3], w[2], w[1]>>

\* The word that four bytes in memory hold on the little-endian target.
FromLe(m) == <<m[4], m[3], m[2], m[1]>>

\* read(2) of n bytes: an error, end of file, a short count or all of them.
ReadResults(n) == {-1, 0, n \div 2, n}

\* A write(2) where the read(2) belongs: the descriptor is open O_RDWR.
EncRead_Writes(c) ==
    /\ l[c].pc = "enc_read"
    /\ \E res \in WriteResults(4) :
         Set(c, ScanOut(l[c], fds, 0,
                        Log(c, Ev("write", l[c].fd, l[c].pos,
                                  [len |-> 4, zero |-> TRUE, res |-> res]))))
    /\ fds' = ScanOutFds(l[c], fds)
    /\ UNCHANGED info

EncRead(c) ==
    /\ l[c].pc = "enc_read"
    /\ \E res \in ReadResults(4), bytes \in {ToLe(w) : w \in CryptWords} :
         /\ res # 4 => bytes = ToLe(<<0, 0, 0, 0>>)
         /\ LET tr == Log(c, Ev("read", l[c].fd, l[c].pos,
                                [len |-> 4, res |-> res, bytes |-> bytes]))
                crypt_magic == FromLe(bytes)
            IN  IF res # 4
                THEN Set(c, ScanOut(l[c], fds, 0, tr))
                ELSE IF crypt_magic # CRYPT_MAGIC
                THEN Set(c, ScanOut(l[c], fds, 0, tr))
                ELSE Set(c, ScanOut(l[c], fds, 1, tr))
    /\ fds' = ScanOutFds(l[c], fds)
    /\ UNCHANGED info

IsPartitionEncrypted(c) ==
    \/ EncEntry(c) \/ EncOpen(c) \/ EncIoctl(c) \/ EncSeek(c) \/ EncRead(c)

(* ------------------------------------------------------------------ *)
(* fs_mgr_identify_fs                                                  *)
(* ------------------------------------------------------------------ *)

\* TOTAL_SECTORS * 512
BlockBytes == TOTAL_SECTORS * SectorSize

\* sizeof(struct ext4_super_block) and offsetof(struct ext4_super_block, s_magic)
\* of "ext4.h".
SizeofExt4SuperBlock == 1024

OffsetofSMagic == 56

\* The start of a device: all zero but for one magic (or none) placed at a byte
\* offset, in the byte order it has on disk.
MagicPlaces ==
    {SectorSize * i : i \in 0 .. (TOTAL_SECTORS + 1)}
    \cup {SizeofExt4SuperBlock * k + OffsetofSMagic : k \in 0 .. 8}
    \cup {1, OffsetofSMagic + 1, SectorSize + 2}

DeviceStarts ==
    {[kind |-> "zero", at |-> 0]}
    \cup {[kind |-> k, at |-> a] : k \in {"f2fs", "ext4"}, a \in MagicPlaces}

MagicBytes(kind) ==
    IF kind = "f2fs" THEN ToLe(F2FS_SUPER_MAGIC)
    ELSE IF kind = "ext4" THEN <<EXT4_SUPER_MAGIC[4], EXT4_SUPER_MAGIC[3]>>
    ELSE <<>>

\* Byte o of the calloc'ed block after the read of the first BlockBytes bytes.
ByteAt(d, o) ==
    IF o < BlockBytes /\ o >= d.at /\ o - d.at < Len(MagicBytes(d.kind))
    THEN MagicBytes(d.kind)[o - d.at + 1]
    ELSE 0

\* le32_to_cpu of the __le32 at byte o.
Le32At(d, o) == FromLe(<<ByteAt(d, o), ByteAt(d, o + 1), ByteAt(d, o + 2), ByteAt(d, o + 3)>>)

\* le32_to_cpu of the __le16 at byte o, widened.
Le16At(d, o) == FromLe(<<ByteAt(d, o), ByteAt(d, o + 1), 0, 0>>)

\* A scan that steps by the size of the ext4 superblock, not by sectors.
is_f2fs_Stride(d) ==
    \E i \in 0 .. (TOTAL_SECTORS - 1) :
        Le32At(d, i * SizeofExt4SuperBlock) = F2FS_SUPER_MAGIC

is_f2fs(d) ==
    \E i \in 0 .. (TOTAL_SECTORS - 1) : Le32At(d, i * SectorSize) = F2FS_SUPER_MAGIC

\* A scan that reads the magic at the start of each structure.
is_ext4_NoOffset(d) ==
    \E k \in 0 .. ((BlockBytes - 1) \div SizeofExt4SuperBlock) :
        Le16At(d, k * SizeofExt4SuperBlock) = EXT4_SUPER_MAGIC

is_ext4(d) ==
    \E k \in 0 .. ((BlockBytes - 1) \div SizeofExt4SuperBlock) :
        Le16At(d, k * SizeofExt4SuperBlock + OffsetofSMagic) = EXT4_SUPER_MAGIC

\* char rc converted to the int that is returned: plain char is signed or
\* unsigned as the target has it.
CharAsInt(v) == IF v < 0 THEN {v, v + 256} ELSE {v}

\* The out: label of fs_mgr_identify_fs: close, free, return rc.
IdOut(c, rc, tr) ==
    /\ \E ret \in CharAsInt(rc) : Set(c, [ScanOut(l[c], fds, ret, tr) EXCEPT !.block = FALSE])
    /\ fds' = ScanOutFds(l[c], fds)

\* block = calloc(1, TOTAL_SECTORS * 512)
IdCalloc(c) ==
    /\ l[c].pc = "id_calloc"
    /\ \/ IdOut(c, -1, l[c].trace)
       \/ /\ Set(c, [l[c] EXCEPT !.block = TRUE, !.pc = "id_open"])
          /\ UNCHANGED fds
    /\ UNCHANGED info

IdOpen(c) ==
    /\ l[c].pc = "id_open"
    /\ \/ IdOut(c, -1, Log(c, Ev("open", -1, l[c].fstab.blk_device, "O_RDONLY")))
       \/ LET fd == LowestFree(fds)
          IN  /\ fds' = fds \cup {fd}
              /\ Set(c, [l[c] EXCEPT !.fd = fd, !.pos = 0, !.pc = "id_read",
                     !.trace = Log(c, Ev("open", fd, l[c].fstab.blk_device, "O_RDONLY"))])
    /\ UNCHANGED info

\* A comparison that takes either magic for any declared type.
IdMatches_AnyType(fs_type, d) == is_f2fs(d) \/ is_ext4(d)

IdMatches(fs_type, d) ==
    \/ strncmp(fs_type, Str_f2fs, FsTypePrefixLen) = 0 /\ is_f2fs(d)
    \/ strncmp(fs_type, Str_ext4, FsTypePrefixLen) = 0 /\ is_ext4(d)

\* The read of the block and, when it is complete, the comparison.
IdRead(c) ==
    /\ l[c].pc = "id_read"
    /\ \E res \in ReadResults(BlockBytes), d \in DeviceStarts :
         /\ res # BlockBytes => d.kind = "zero"
         /\ LET tr == Log(c, Ev("read", l[c].fd, l[c].pos,
                                [len |-> BlockBytes, res |-> res, dev |-> d]))
            IN  IF res # BlockBytes
                THEN IdOut(c, -1, tr)
                ELSE IdOut(c, IF IdMatches(l[c].fstab.fs_type, d) THEN 0 ELSE -1, tr)
    /\ UNCHANGED info

IdentifyFs(c) == IdCalloc(c) \/ IdOpen(c) \/ IdRead(c)

Step(c) ==
    \/ Call(c) \/ Return(c) \/ DoFormat(c) \/ DoFormatReturn(c)
    \/ FormatExt4(c) \/ FormatF2fs(c) \/ IsPartitionEncrypted(c) \/ IdentifyFs(c)

Next == \E c \in {1} : Step(c)

Spec == Init /\ [][Next]_vars

(* ------------------------------------------------------------------ *)
(* Vocabulary of the properties                                        *)
(* ------------------------------------------------------------------ *)

Events(c, k) == {i \in DOMAIN l[c].trace : l[c].trace[i].ev = k}

Returned(c, op) == l[c].pc = "done" /\ l[c].op = op

HasPrefix(s, p) == Len(s) >= Len(p) /\ SubSeq(s, 1, Len(p)) = p

TypeIsExt4(c) == HasPrefix(l[c].fstab.fs_type, <<"e", "x", "t", "4">>)

TypeIsF2fs(c) == HasPrefix(l[c].fstab.fs_type, <<"f", "2", "f", "s">>)

KeyIsFooter(c) ==
    /\ ~l[c].fstab.key_loc.null
    /\ l[c].fstab.key_loc.s = <<"f", "o", "o", "t", "e", "r">>

\* The sector count the BLKGETSIZE of this call reported.
Sectors(c) == l[c].trace[CHOOSE i \in Events(c, "ioctl") : TRUE].z

\* The descriptors this call got from open.
Opened(c) == {l[c].trace[i].x : i \in Events(c, "open")} \ {-1}

\* The status word says "exited normally with this code".
ExitedWith(status, code) == status = 256 * code

(* ------------------------------------------------------------------ *)
(* C1                                                                  *)
(* ------------------------------------------------------------------ *)

\* C1: fs_mgr_do_format returns 0 only when the builder its fs_type selects was
\* run and reported success: make_ext4fs_internal returned 0, or the
\* /sbin/mkfs.f2fs child was executed and exited with status 0.
C1_SuccessOnlyFromBuilder ==
    \A c \in Ctx :
        Returned(c, "do_format") /\ l[c].ret = 0 =>
            \/ /\ TypeIsExt4(c)
               /\ \E i \in Events(c, "builder") : l[c].trace[i].z.res = 0
            \/ /\ TypeIsF2fs(c)
               /\ l[c].execd
               /\ l[c].child = "reaped"
               /\ ExitedWith(l[c].cstatus, 0)

(* ------------------------------------------------------------------ *)
(* C2                                                                  *)
(* ------------------------------------------------------------------ *)

\* C2: the length the ext4 builder finds in info.len is sector_count*512 minus
\* the footer size when key_location is "footer", and sector_count*512 otherwise.
C2_BuilderLength ==
    \A c \in Ctx : \A i \in Events(c, "builder") :
        l[c].trace[i].y = IF KeyIsFooter(c)
                          THEN Sectors(c) * 512 - SizeofCryptMntFtr
                          ELSE Sectors(c) * 512

(* ------------------------------------------------------------------ *)
(* C3                                                                  *)
(* ------------------------------------------------------------------ *)

\* C3: on the ext4 path with a footer, a failed seek to the footer or a failed
\* write of the zeroed record aborts the format: the builder is never invoked
\* and the status returned is a failure.
C3_WipeFailureAborts ==
    \A c \in Ctx :
        /\ l[c].op = "do_format"
        /\ \/ \E i \in Events(c, "lseek") : l[c].trace[i].z = -1
           \/ \E i \in Events(c, "write") : l[c].trace[i].z.res = -1
        => /\ Events(c, "builder") = {}
           /\ l[c].pc = "done" => l[c].ret < 0

(* ------------------------------------------------------------------ *)
(* C4                                                                  *)
(* ------------------------------------------------------------------ *)

\* C4: when the ext4 builder is invoked and key_location is "footer", the
\* orchestrator has before that issued exactly one write, of an all-zero record
\* of the footer structure's size, on the device at byte offset
\* sector_count*512 - CRYPT_FOOTER_OFFSET; when key_location is not "footer" it
\* has issued no write at all.
C4_WipeBeforeBuild ==
    \A c \in Ctx : \A i \in Events(c, "builder") :
        LET writes == {j \in Events(c, "write") : j < i}
        IN  IF KeyIsFooter(c)
            THEN /\ Cardinality(writes) = 1
                 /\ Events(c, "write") = writes
                 /\ \A j \in writes :
                      /\ l[c].trace[j].x \in Opened(c)
                      /\ l[c].trace[j].y = Sectors(c) * 512 - 16384
                      /\ l[c].trace[j].z.zero
                      /\ l[c].trace[j].z.len = SizeofCryptMntFtr
            ELSE Events(c, "write") = {}

C4_Witness ==
    \E i \in Events(1, "builder") : \E j \in Events(1, "write") :
        /\ j < i
        /\ KeyIsFooter(1)
        /\ Sectors(1) = 2048
        /\ l[1].trace[j].y = 1048576 - 16384

(* ------------------------------------------------------------------ *)
(* C5                                                                  *)
(* ------------------------------------------------------------------ *)

\* C5: fs_mgr_do_format dispatches on the first four characters of fs_type
\* alone.  A type that starts with "ext4" takes the ext4 path (it opens the
\* device) and never forks; one that starts with "f2fs" takes the f2fs path (it
\* forks) and never opens the device or calls the ext4 builder; any other type
\* returns -EINVAL with no open, no fork and no builder call.
C5_DispatchOnPrefix ==
    \A c \in Ctx :
        l[c].op = "do_format" =>
            /\ TypeIsExt4(c) =>
                 /\ Events(c, "fork") = {} /\ Events(c, "exec") = {}
                 /\ l[c].child = "none"
                 /\ l[c].pc = "done" => Events(c, "open") # {}
            /\ TypeIsF2fs(c) =>
                 /\ Events(c, "open") = {} /\ Events(c, "builder") = {}
                 /\ l[c].pc = "done" => Events(c, "fork") # {}
            /\ ~TypeIsExt4(c) /\ ~TypeIsF2fs(c) =>
                 /\ l[c].trace = <<>>
                 /\ l[c].child = "none"
                 /\ l[c].pc = "done" => l[c].ret = -22

C5_Witness ==
    /\ Returned(1, "do_format")
    /\ l[1].fstab.fs_type = <<"e", "x", "t", "4", "d", "e", "v">>
    /\ Events(1, "builder") # {}

(* ------------------------------------------------------------------ *)
(* C6                                                                  *)
(* ------------------------------------------------------------------ *)

\* C6: the status fs_mgr_do_format returns is 0 or negative on every path: a
\* non-zero result of the ext4 builder reaches the caller as -1, never as a
\* positive number.
C6_StatusZeroOrNegative ==
    \A c \in Ctx :
        Returned(c, "do_format") =>
            /\ l[c].ret <= 0
            /\ \A i \in Events(c, "builder") :
                 l[c].ret = IF l[c].trace[i].z.res = 0 THEN 0 ELSE -1

(* ------------------------------------------------------------------ *)
(* C7                                                                  *)
(* ------------------------------------------------------------------ *)

\* C7: the f2fs child executes /sbin/mkfs.f2fs with the arguments "-r", the
\* footer and the device path, the footer being "16384" when key_location is
\* "footer" and "0" otherwise; and when waitpid reports that this child exited
\* normally, fs_mgr_do_format returns 0 for exit code 0 and -1 for any other.
C7_F2fsArgsAndExit ==
    \A c \in Ctx :
        /\ \A i \in Events(c, "exec") :
             /\ l[c].trace[i].x =
                  <<"/", "s", "b", "i", "n", "/", "m", "k", "f", "s", ".", "f", "2", "f", "s">>
             /\ l[c].trace[i].y =
                  << <<"-", "r">>,
                     IF KeyIsFooter(c) THEN <<"1", "6", "3", "8", "4">> ELSE <<"0">>,
                     l[c].fstab.blk_device >>
        /\ \A code \in 0 .. 255 :
             /\ Returned(c, "do_format")
             /\ l[c].pid > 0
             /\ l[c].child = "reaped"
             /\ ExitedWith(l[c].cstatus, code)
             => l[c].ret = IF code = 0 THEN 0 ELSE -1

C7_Witness ==
    /\ Returned(1, "do_format")
    /\ KeyIsFooter(1)
    /\ Events(1, "exec") # {}
    /\ l[1].child = "reaped"
    /\ ExitedWith(l[1].cstatus, 2)
    /\ l[1].ret = -1

(* ------------------------------------------------------------------ *)
(* C8                                                                  *)
(* ------------------------------------------------------------------ *)

\* The child of this call was killed by a signal.
KilledBySignal(c) ==
    /\ l[c].child \in {"signaled", "reaped"}
    /\ l[c].cstatus \in 1 .. 127

\* C8: when the f2fs child is killed by a signal, or a waitpid returns anything
\* but the pid it was asked to wait for, format_f2fs returns a negative status.
C8_AbnormalEndFails ==
    \A c \in Ctx :
        /\ Returned(c, "do_format")
        /\ \/ KilledBySignal(c)
           \/ \E i \in Events(c, "waitpid") : l[c].trace[i].y # l[c].trace[i].x
        => l[c].ret < 0

C8_Witness ==
    /\ Returned(1, "do_format")
    /\ KilledBySignal(1)
    /\ l[1].child = "reaped"
    /\ l[1].ret = -1

(* ------------------------------------------------------------------ *)
(* C9                                                                  *)
(* ------------------------------------------------------------------ *)

\* C9: the wait loop is bounded: at most two waitpid calls are made once the
\* child has terminated, a waitpid result other than the child's pid ends the
\* loop with a failure, and a waitpid is repeated only while the child is alive
\* and not yet reaped.
C9_WaitOnlyWhileAlive ==
    \A c \in Ctx :
        /\ l[c].waits <= 2
        /\ \A i \in Events(c, "waitpid") :
             l[c].trace[i].y # l[c].trace[i].x =>
                 /\ \A j \in Events(c, "waitpid") : j <= i
                 /\ l[c].rc = -1
        /\ \A i \in Events(c, "waitpid") :
             (\E j \in Events(c, "waitpid") : j < i) =>
                 l[c].trace[i].z.child \in {"forked", "running"}

(* ------------------------------------------------------------------ *)
(* C10                                                                 *)
(* ------------------------------------------------------------------ *)

\* C10: when fs_mgr_is_partition_encrypted, fs_mgr_identify_fs or format_ext4
\* has returned, every descriptor it opened has been closed: a successful close
\* of it follows the open, and it is not among the open descriptors.
C10_HandlesClosed ==
    \A c \in Ctx :
        l[c].pc \in {"fmt_ret", "done"} =>
            \A i \in Events(c, "open") :
                l[c].trace[i].x >= 0 =>
                    /\ l[c].trace[i].x \notin fds
                    /\ \E j \in Events(c, "close") :
                         /\ j > i
                         /\ l[c].trace[j].x = l[c].trace[i].x
                         /\ l[c].trace[j].y = 0

C10_Witness ==
    /\ Returned(1, "do_format")
    /\ l[1].ret = -1
    /\ \E i \in Events(1, "ioctl") : l[1].trace[i].y = -1
    /\ Opened(1) # {}

(* ------------------------------------------------------------------ *)
(* C11                                                                 *)
(* ------------------------------------------------------------------ *)

\* A builder was invoked by this call: make_ext4fs_internal was called, or a
\* child was forked for /sbin/mkfs.f2fs.
BuilderInvoked(c) ==
    \/ Events(c, "builder") # {}
    \/ \E i \in Events(c, "fork") : l[c].trace[i].x > 0

\* The status returned is the builder's own result: what make_ext4fs_internal
\* returned, or the outcome of the terminated child (0 for exit code 0, -1 for
\* any other end).
ReturnsBuilderResult(c) ==
    \/ \E i \in Events(c, "builder") : l[c].ret = l[c].trace[i].z.res
    \/ /\ l[c].child = "reaped"
       /\ l[c].ret = IF ExitedWith(l[c].cstatus, 0) THEN 0 ELSE -1

\* C11: fs_mgr_do_format has no partial-success state: when it returns, either
\* a builder was invoked and the status is that builder's own result, or the
\* status is a failure and no builder was invoked.
C11_NoPartialSuccess ==
    \A c \in Ctx :
        Returned(c, "do_format") =>
            \/ BuilderInvoked(c) /\ ReturnsBuilderResult(c)
            \/ ~BuilderInvoked(c) /\ l[c].ret < 0

(* ------------------------------------------------------------------ *)
(* C12: two contexts of one process format two devices as ext4         *)
(* ------------------------------------------------------------------ *)

\* The device each context formats.
DeviceOf(c) == IF c = 1 THEN DevUserdata ELSE DevCache

\* fs_mgr_do_format called for an ext4 entry of the context's own device, one
\* without a footer (the wipe plays no part in what the calls share).
CallFormatExt4(c) ==
    /\ l[c].pc = "idle"
    /\ \E f \in Fstabs :
        /\ f.blk_device = DeviceOf(c)
        /\ f.fs_type = Str_ext4
        /\ ~f.encryptable
        /\ f.key_loc = NullStr
        /\ Set(c, [Idle EXCEPT !.op = "do_format", !.fstab = f, !.pc = "fmt_entry"])
    /\ UNCHANGED <<fds, info>>

\* The calls of the two contexts interleave statement by statement; they share
\* the descriptor table and the global info.
NextConc ==
    \E c \in Ctx :
        \/ CallFormatExt4(c) \/ Return(c) \/ DoFormat(c) \/ DoFormatReturn(c)
        \/ Ext4Open(c) \/ Ext4Ioctl(c) \/ Ext4Close(c) \/ Ext4SetLen(c)
        \/ Ext4Build(c) \/ Ext4Close2(c)

SpecConc == Init /\ [][NextConc]_vars

\* C12: fs_mgr_do_format keeps no state that calls share: when ext4 formats of
\* different devices interleave, the length each builder call finds in info.len
\* is the one computed from the sector count of its own device.
C12_OwnLength ==
    \A c \in Ctx : \A i \in Events(c, "builder") :
        l[c].trace[i].y = Sectors(c) * 512

(* ------------------------------------------------------------------ *)
(* C13, C14                                                            *)
(* ------------------------------------------------------------------ *)

\* The read of fs_mgr_identify_fs returned all 8192 bytes.
FullReads(c) == {i \in Events(c, "read") : l[c].trace[i].z.res = 8192}

\* What the device holds where that read took it from.
DevRead(c) == l[c].trace[CHOOSE i \in FullReads(c) : TRUE].z.dev

\* The device holds the f2fs magic 0xF2F52010, least significant byte first, at
\* the start of one of its first sixteen sectors.
F2fsMagicAtSector(d) ==
    d.kind = "f2fs" /\ \E i \in 0 .. 15 : d.at = 512 * i

\* The device holds the ext4 magic 0xEF53, least significant byte first, in the
\* s_magic field (byte 56) of one of the eight 1024-byte structures.
Ext4MagicInField(d) ==
    d.kind = "ext4" /\ \E k \in 0 .. 7 : d.at = 1024 * k + 56

\* C13: with declared type "f2fs" and a full read, fs_mgr_identify_fs reports a
\* match exactly when the little-endian word at the start of one of the sixteen
\* sectors is the f2fs magic; the magic elsewhere gives no match.
C13_F2fsMatch ==
    \A c \in Ctx :
        Returned(c, "identify_fs") /\ TypeIsF2fs(c) /\ FullReads(c) # {} =>
            (l[c].ret = 0 <=> F2fsMagicAtSector(DevRead(c)))

C13_Witness ==
    /\ Returned(1, "identify_fs")
    /\ TypeIsF2fs(1)
    /\ FullReads(1) # {}
    /\ DevRead(1) = [kind |-> "f2fs", at |-> 7680]
    /\ l[1].ret = 0

\* C14: with declared type "ext4" and a full read, fs_mgr_identify_fs reports a
\* match exactly when the 16-bit s_magic field of one of the superblock-sized
\* structures that fill the 8192 bytes is 0xEF53.
C14_Ext4Match ==
    \A c \in Ctx :
        Returned(c, "identify_fs") /\ TypeIsExt4(c) /\ FullReads(c) # {} =>
            (l[c].ret = 0 <=> Ext4MagicInField(DevRead(c)))

C14_Witness ==
    /\ Returned(1, "identify_fs")
    /\ TypeIsExt4(1)
    /\ FullReads(1) # {}
    /\ DevRead(1) = [kind |-> "ext4", at |-> 1080]
    /\ l[1].ret = 0

(* ------------------------------------------------------------------ *)
(* C16                                                                 *)
(* ------------------------------------------------------------------ *)

\* C16: fs_mgr_identify_fs returns non-zero when the declared type is neither
\* "f2fs" nor "ext4", when the device holds only the other filesystem's magic,
\* when the open fails and when the read is short; it returns 0 only for a
\* full read that holds the magic of the declared type.
C16_NoMatchCases ==
    \A c \in Ctx :
        Returned(c, "identify_fs") =>
            /\ ~TypeIsF2fs(c) /\ ~TypeIsExt4(c) => l[c].ret # 0
            /\ FullReads(c) = {} => l[c].ret # 0
            /\ (\E i \in Events(c, "open") : l[c].trace[i].x = -1) => l[c].ret # 0
            /\ FullReads(c) # {} /\ TypeIsF2fs(c) /\ DevRead(c).kind = "ext4"
                 => l[c].ret # 0
            /\ FullReads(c) # {} /\ TypeIsExt4(c) /\ DevRead(c).kind = "f2fs"
                 => l[c].ret # 0
            /\ l[c].ret = 0 =>
                 /\ FullReads(c) # {}
                 /\ \/ TypeIsF2fs(c) /\ F2fsMagicAtSector(DevRead(c))
                    \/ TypeIsExt4(c) /\ Ext4MagicInField(DevRead(c))

C16_Witness ==
    /\ Returned(1, "identify_fs")
    /\ TypeIsExt4(1)
    /\ FullReads(1) # {}
    /\ DevRead(1) = [kind |-> "f2fs", at |-> 0]
    /\ l[1].ret # 0

(* ------------------------------------------------------------------ *)
(* C15                                                                 *)
(* ------------------------------------------------------------------ *)

\* key_location is an absolute path.
KeyIsPath(c) ==
    /\ Len(l[c].fstab.key_loc.s) > 0
    /\ l[c].fstab.key_loc.s[1] = "/"

\* Read event i is made on a descriptor that the call opened on this path.
ReadsFrom(c, i, path) ==
    \E j \in Events(c, "open") :
        /\ j < i
        /\ l[c].trace[j].x = l[c].trace[i].x
        /\ l[c].trace[j].y = path

\* C15: for an encryptable entry fs_mgr_is_partition_encrypted returns 1 exactly
\* when it read four bytes that are 0xD0B5B1C4 (least significant byte first),
\* and 0 otherwise; what it reads is the start of the file key_location names
\* when that is an absolute path, and byte sector_count*512 - CRYPT_FOOTER_OFFSET
\* of the block device when key_location is "footer".
C15_EncryptedIffMagic ==
    \A c \in Ctx :
        Returned(c, "is_partition_encrypted") /\ l[c].fstab.encryptable =>
            /\ l[c].ret \in {0, 1}
            /\ l[c].ret = 1 <=>
                 \E i \in Events(c, "read") :
                     /\ l[c].trace[i].z.res = 4
                     /\ l[c].trace[i].z.bytes = <<196, 177, 181, 208>>
            /\ \A i \in Events(c, "read") :
                 IF KeyIsPath(c)
                 THEN /\ l[c].trace[i].y = 0
                      /\ ReadsFrom(c, i, l[c].fstab.key_loc.s)
                 ELSE /\ KeyIsFooter(c)
                      /\ l[c].trace[i].y = Sectors(c) * 512 - 16384
                      /\ ReadsFrom(c, i, l[c].fstab.blk_device)

C15_Witness ==
    /\ Returned(1, "is_partition_encrypted")
    /\ KeyIsFooter(1)
    /\ l[1].ret = 1
    /\ \E i \in Events(1, "read") : l[1].trace[i].y = 1048576 - 16384

(* ------------------------------------------------------------------ *)
(* C17                                                                 *)
(* ------------------------------------------------------------------ *)

\* An open, a size query, a seek or a read of this call failed or fell short.
ScanFailure(c) ==
    \/ \E i \in Events(c, "open") : l[c].trace[i].x = -1
    \/ \E i \in Events(c, "ioctl") : l[c].trace[i].y = -1
    \/ \E i \in Events(c, "lseek") : l[c].trace[i].z = -1
    \/ \E i \in Events(c, "read") : l[c].trace[i].z.res # l[c].trace[i].z.len

\* C17: fs_mgr_is_partition_encrypted returns 0 after any failed open, size
\* query or seek and after a short read, and for an entry that is not
\* encryptable it returns 0 without a single system call.
C17_FailuresReportAbsent ==
    \A c \in Ctx :
        Returned(c, "is_partition_encrypted") =>
            /\ l[c].ret \in {0, 1}
            /\ ScanFailure(c) => l[c].ret = 0
            /\ ~l[c].fstab.encryptable => l[c].ret = 0 /\ l[c].trace = <<>>

C17_Witness ==
    /\ Returned(1, "is_partition_encrypted")
    /\ l[1].fstab.encryptable
    /\ \E i \in Events(1, "read") : l[1].trace[i].z.res = 2
    /\ l[1].ret = 0

(* ------------------------------------------------------------------ *)
(* C18                                                                 *)
(* ------------------------------------------------------------------ *)

\* The calls a scan may make: none of them changes a file or a device.
ReadOnlyCalls == {"open", "ioctl", "lseek", "read", "close"}

\* C18: no step of a running entry point changes a field of the partition
\* descriptor, and fs_mgr_identify_fs and fs_mgr_is_partition_encrypted make no
\* call that changes the contents of a device or a file.
C18_ScansReadOnly ==
    [][\A c \in Ctx :
        /\ l[c].pc \notin {"idle", "done"} => l'[c].fstab = l[c].fstab
        /\ l'[c].op \in {"is_partition_encrypted", "identify_fs"} =>
             \A i \in DOMAIN l'[c].trace : l'[c].trace[i].ev \in ReadOnlyCalls
      ]_vars

C18_Witness ==
    /\ Returned(1, "is_partition_encrypted")
    /\ l[1].fstab.key_loc = StrPtr(KeyFile)
    /\ \E i \in Events(1, "read") : l[1].trace[i].z.res = 4

(* ------------------------------------------------------------------ *)
(* C19                                                                 *)
(* ------------------------------------------------------------------ *)

\* C19: in a format_ext4 call the descriptor handed to make_ext4fs_internal is
\* open when the call is made, and every close is made on an open descriptor.
C19_NoUseAfterClose ==
    \A c \in Ctx :
        TypeIsExt4(c) /\ l[c].op = "do_format" =>
            /\ \A i \in Events(c, "builder") : l[c].trace[i].z.open
            /\ \A i \in Events(c, "close") : l[c].trace[i].y = 0

(* ------------------------------------------------------------------ *)
(* C20                                                                 *)
(* ------------------------------------------------------------------ *)

\* C20: when fork() returned -1 in format_f2fs the format reports a failure,
\* whatever the waitpid call that follows returns.
C20_ForkFailureFails ==
    \A c \in Ctx :
        /\ Returned(c, "do_format")
        /\ \E i \in Events(c, "fork") : l[c].trace[i].x = -1
        => l[c].ret < 0

====
